---------------------------- MODULE Spec2Model ----------------------------
(***************************************************************************)
(* Disk imaging with live hashing and re-verification                      *)
(* (src/Given/FTK_img.py): image_and_hash copies a source to a destination *)
(* in chunks while feeding MD5 and SHA1, hash_file re-reads the            *)
(* destination, and main compares sizes and digests and draws the          *)
(* conclusion.                                                             *)
(***************************************************************************)
EXTENDS Integers, Sequences, FiniteSets, TLC

\* ------------------------------------------------------------------ bounds
\* Longest source / pre-existing destination content, in bytes.
MaxLen == 3
\* Largest chunk_size tried (the program's default is 1 MiB).
MaxChunk == 2
\* Further calls of hash_file on the same path after the first one.
MaxRuns == 2
\* Length of the free messages given to embed_message.
MaxMsgLen == 2

Byte == {0, 1}

RECURSIVE SeqsUpTo(_)
SeqsUpTo(n) ==
    IF n = 0 THEN {<<>>}
    ELSE LET shorter == SeqsUpTo(n - 1)
         IN  shorter \cup {Append(s, b) : s \in {t \in shorter : Len(t) = n - 1}, b \in Byte}

Contents == SeqsUpTo(MaxLen)

Min(a, b) == IF a < b THEN a ELSE b

\* ------------------------------------------------------- Python's None
\* An optional value is <<>> (None) or <<v>>.
None == <<>>
Some(v) == <<v>>
IsNone(x) == x = <<>>
Val(x) == x[1]

\* -------------------------------------------------------------- hashlib
\* An incremental digest state is a number, updated byte by byte in arrival
\* order; the two algorithms differ.  Both are collision-free on the
\* contents the model draws, and neither is the identity on the content.
HexChars == <<"0", "1", "2", "3", "4", "5", "6", "7",
              "8", "9", "a", "b", "c", "d", "e", "f">>

\* hashlib.md5() / hashlib.sha1(): the state of a new digest object.
Md5New == 0
Sha1New == 0

RECURSIVE Md5Update(_, _)
Md5Update(h, chunk) ==
    IF chunk = <<>> THEN h
    ELSE Md5Update((h * 3 + Head(chunk) + 1) % 65536, Tail(chunk))

RECURSIVE Sha1Update(_, _)
Sha1Update(h, chunk) ==
    IF chunk = <<>> THEN h
    ELSE Sha1Update((h * 5 + Head(chunk) + 2) % 1048576, Tail(chunk))

RECURSIVE HexOf(_, _)
HexOf(n, width) ==
    IF width = 0 THEN <<>>
    ELSE Append(HexOf(n \div 16, width - 1), HexChars[(n % 16) + 1])

\* .hexdigest(): lower-case hex of the state, fixed width per algorithm.
Md5Hexdigest(h) == HexOf(h, 4)
Sha1Hexdigest(h) == HexOf(h, 5)

\* The digests of a whole content fed in one piece.
Md5Of(data) == Md5Hexdigest(Md5Update(Md5New, data))
Sha1Of(data) == Sha1Hexdigest(Sha1Update(Sha1New, data))

RECURSIVE Flatten(_)
Flatten(chunks) ==
    IF chunks = <<>> THEN <<>> ELSE Head(chunks) \o Flatten(Tail(chunks))

\* ---------------------------------------------------------------- state
VARIABLES
    \* the environment and the arguments
    srcData,          \* content of the source (stable during the copy)
    srcKind,          \* "file" or "device"
    srcExists,        \* whether source_path names something
    pathGiven,        \* whether the user typed a source path
    chunk_size,       \* image_and_hash's chunk_size
    hf_chunk_size,    \* hash_file's chunk_size
    ioFaults,         \* whether the environment may fail an I/O call
    fault,            \* the call that raised, "none" while none has
    \* the destination path on disk
    dstExists, dstFile, tampered,
    \* stream handles
    srcOpen, srcOff,  \* src of image_and_hash and its read offset
    dstWOpen, dstBuf, \* dst of image_and_hash and its unflushed bytes
    dstROpen, hfOff,  \* f of hash_file and its read offset
    \* locals of image_and_hash
    md5, sha1, source_size, output_size, total_read, chunk,
    \* locals of hash_file
    hf_md5, hf_sha1, hf_total_read, hf_chunk,
    \* locals of main
    md5_copy, sha1_copy, md5_verify, sha1_verify,
    md5_match_bool, sha1_match_bool, md5_match, sha1_match,
    user_confirm, size_match, conclusion, report,
    \* control
    pc,
    \* history: the chunks read, written and fed, in order
    readLog, wrLog, md5Fed, sha1Fed, hfReadLog, hfMd5Fed, hfSha1Fed,
    \* history: the results of the earlier calls of hash_file, in order
    hfRuns,
    \* stegano_foren.py: the message, the cover file, the output file, the
    \* value extract_message returned, and the position in that program
    message, coverFile, stegoFile, extracted, st_pc

stegVars == <<message, coverFile, stegoFile, extracted, st_pc>>
\* What no step of main changes: its inputs, the record of earlier
\* hash_file calls, and the files of the steganography program.
inputVars == <<srcData, srcKind, srcExists, pathGiven, chunk_size, hf_chunk_size, ioFaults,
               hfRuns, stegVars>>
envVars == <<inputVars, fault>>
fsVars == <<dstExists, dstFile, tampered>>
srcHandle == <<srcOpen, srcOff>>
dstHandle == <<dstWOpen, dstBuf>>
hfHandle == <<dstROpen, hfOff>>
handleVars == <<srcHandle, dstHandle, hfHandle>>
ihVars == <<md5, sha1, source_size, output_size, total_read, chunk>>
hfVars == <<hf_md5, hf_sha1, hf_total_read, hf_chunk>>
digestVars == <<md5_copy, sha1_copy, md5_verify, sha1_verify>>
matchVars == <<md5_match_bool, sha1_match_bool, md5_match, sha1_match>>
outcomeVars == <<user_confirm, size_match, conclusion, report>>
mainVars == <<digestVars, matchVars, outcomeVars>>
ihHist == <<readLog, wrLog, md5Fed, sha1Fed>>
hfHist == <<hfReadLog, hfMd5Fed, hfSha1Fed>>
histVars == <<ihHist, hfHist>>

vars == <<envVars, fsVars, handleVars, ihVars, hfVars, mainVars, pc, histVars>>

\* The steganography program has not been started.
NoSteg ==
    /\ message = <<>> /\ coverFile = <<>>
    /\ stegoFile = None /\ extracted = None
    /\ st_pc = "idle"

\* Everything but the environment, as it is when main starts.
Fresh ==
    /\ hfRuns = <<>>
    /\ tampered = "none"
    /\ srcOpen = FALSE /\ srcOff = 0
    /\ dstWOpen = FALSE /\ dstBuf = <<>>
    /\ dstROpen = FALSE /\ hfOff = 0
    /\ md5 = Md5New /\ sha1 = Sha1New
    /\ source_size = None /\ output_size = None
    /\ total_read = 0 /\ chunk = <<>>
    /\ hf_md5 = Md5New /\ hf_sha1 = Sha1New
    /\ hf_total_read = 0 /\ hf_chunk = <<>>
    /\ md5_copy = None /\ sha1_copy = None
    /\ md5_verify = None /\ sha1_verify = None
    /\ md5_match_bool = FALSE /\ sha1_match_bool = FALSE
    /\ md5_match = "" /\ sha1_match = ""
    /\ user_confirm = "" /\ size_match = "" /\ conclusion = ""
    /\ report = None
    /\ readLog = <<>> /\ wrLog = <<>> /\ md5Fed = <<>> /\ sha1Fed = <<>>
    /\ hfReadLog = <<>> /\ hfMd5Fed = <<>> /\ hfSha1Fed = <<>>

Init ==
    /\ srcData \in Contents
    /\ srcKind \in {"file", "device"}
    /\ srcExists \in BOOLEAN
    /\ pathGiven \in BOOLEAN
    /\ chunk_size \in 1..MaxChunk
    /\ hf_chunk_size \in 1..MaxChunk
    /\ ioFaults \in BOOLEAN
    /\ dstExists \in BOOLEAN
    /\ dstFile \in IF dstExists THEN {<<>>, <<1>>, <<0, 1>>} ELSE {<<>>}
    /\ fault = "none"
    /\ Fresh
    /\ NoSteg
    /\ pc = "main"

\* ------------------------------------------------------ main: the inputs
\* main, lines 170-173: no source path given, main returns.
MainNoSource ==
    /\ pc = "main"
    /\ ~pathGiven
    /\ pc' = "exit"
    /\ UNCHANGED <<envVars, fsVars, handleVars, ihVars, hfVars, mainVars, histVars>>

\* main, line 182: the call of image_and_hash.
MainCallImage ==
    /\ pc = "main"
    /\ pathGiven
    /\ pc' = "ih_getsize"
    /\ UNCHANGED <<envVars, fsVars, handleVars, ihVars, hfVars, mainVars, histVars>>

\* ------------------------------------------------------- image_and_hash
\* os.path.getsize(source_path): the outcomes the platform can give.  A
\* block device has st_size 0 on some platforms and fails the query on
\* others; a missing path fails it.
SourceSizeOutcomes ==
    IF ~srcExists THEN {None}
    ELSE IF srcKind = "file" THEN {Some(Len(srcData))} \cup (IF ioFaults THEN {None} ELSE {})
    ELSE {None, Some(0)}

\* A source size query whose exception is not caught.
GetSourceSizeFatal ==
    /\ pc = "ih_getsize"
    /\ md5' = Md5New
    /\ sha1' = Sha1New
    /\ \E sz \in SourceSizeOutcomes :
          /\ source_size' = sz
          /\ pc' = IF sz = None THEN "err_other" ELSE "ih_open_src"
    /\ total_read' = 0
    /\ UNCHANGED <<output_size, chunk>>
    /\ UNCHANGED <<envVars, fsVars, handleVars, hfVars, mainVars, histVars>>

\* lines 40-50: new digest states, the best-effort source size, total_read.
GetSourceSize ==
    /\ pc = "ih_getsize"
    /\ md5' = Md5New
    /\ sha1' = Sha1New
    /\ source_size' \in SourceSizeOutcomes
    /\ total_read' = 0
    /\ pc' = "ih_open_src"
    /\ UNCHANGED <<output_size, chunk>>
    /\ UNCHANGED <<envVars, fsVars, handleVars, hfVars, mainVars, histVars>>

\* line 56, open(source_path, "rb", buffering=0) succeeds.
OpenSource ==
    /\ pc = "ih_open_src"
    /\ srcExists
    /\ srcOpen' = TRUE
    /\ srcOff' = 0
    /\ pc' = "ih_open_dst"
    /\ UNCHANGED <<envVars, fsVars, dstHandle, hfHandle, ihVars, hfVars, mainVars, histVars>>

\* An open of the destination that comes before the open of the source: the
\* destination is created or truncated although the source open then fails.
OpenSourceFailAfterDest ==
    /\ pc = "ih_open_src"
    /\ fault' = "open_src"
    /\ \/ ~srcExists /\ pc' = "err_notfound"
       \/ srcExists /\ ioFaults /\ pc' = "err_perm"
    /\ dstExists' = TRUE
    /\ dstFile' = <<>>
    /\ UNCHANGED <<tampered, inputVars, handleVars, ihVars, hfVars, mainVars, histVars>>

\* line 56, open(source_path) raises: FileNotFoundError for a missing path,
\* PermissionError for a source the user may not read.
OpenSourceFail ==
    /\ pc = "ih_open_src"
    /\ fault' = "open_src"
    /\ \/ ~srcExists /\ pc' = "err_notfound"
       \/ srcExists /\ ioFaults /\ pc' = "err_perm"
    /\ UNCHANGED <<inputVars, fsVars, handleVars, ihVars, hfVars, mainVars, histVars>>

\* line 56, open(output_path, "wb") succeeds: the path is created or
\* truncated and the buffered writer starts empty.
\* An output opened with mode "ab": created if missing, never truncated.
OpenDestAppend ==
    /\ pc = "ih_open_dst"
    /\ dstExists' = TRUE
    /\ dstFile' = dstFile
    /\ dstWOpen' = TRUE
    /\ dstBuf' = <<>>
    /\ pc' = "ih_read"
    /\ UNCHANGED <<tampered, srcHandle, hfHandle>>
    /\ UNCHANGED <<envVars, ihVars, hfVars, mainVars, histVars>>

OpenDest ==
    /\ pc = "ih_open_dst"
    /\ dstExists' = TRUE
    /\ dstFile' = <<>>
    /\ dstWOpen' = TRUE
    /\ dstBuf' = <<>>
    /\ pc' = "ih_read"
    /\ UNCHANGED <<tampered, srcHandle, hfHandle>>
    /\ UNCHANGED <<envVars, ihVars, hfVars, mainVars, histVars>>

\* Two separate opens without a with statement: a failing second open
\* leaves src open.
OpenDestFailLeak ==
    /\ pc = "ih_open_dst"
    /\ fault' = "open_dst"
    /\ ioFaults
    /\ pc' \in {"err_perm", "err_other"}
    /\ UNCHANGED <<inputVars, fsVars, handleVars, ihVars, hfVars, mainVars, histVars>>

\* line 56, open(output_path, "wb") raises while src is open: the with
\* statement closes src on the way out.
OpenDestFail ==
    /\ pc = "ih_open_dst"
    /\ fault' = "open_dst"
    /\ ioFaults
    /\ srcOpen' = FALSE
    /\ pc' \in {"err_perm", "err_other"}
    /\ UNCHANGED <<srcOff, dstHandle, hfHandle>>
    /\ UNCHANGED <<inputVars, fsVars, ihVars, hfVars, mainVars, histVars>>

\* Reads that may return fewer bytes than asked for on a regular file too.
ReadLengthsShort(off, size) ==
    LET rem == Len(srcData) - off
    IN  IF rem = 0 THEN {0} ELSE 1..Min(size, rem)

\* The lengths src.read(chunk_size) can return on an unbuffered handle: 0
\* at the end, all that is asked for on a file, at least one byte on a device.
ReadLengths(off, size) ==
    LET rem == Len(srcData) - off
    IN  IF rem = 0 THEN {0}
        ELSE IF srcKind = "file" THEN {Min(size, rem)}
        ELSE 1..Min(size, rem)

\* A loop that takes a chunk shorter than chunk_size for the end of the
\* stream and leaves without processing it.
ReadChunkStopOnShort ==
    /\ pc = "ih_read"
    /\ \E n \in ReadLengths(srcOff, chunk_size) :
          /\ chunk' = SubSeq(srcData, srcOff + 1, srcOff + n)
          /\ srcOff' = srcOff + n
          /\ readLog' = IF n = 0 THEN readLog ELSE Append(readLog, chunk')
          /\ pc' = IF n < chunk_size THEN "ih_close" ELSE "ih_write"
    /\ UNCHANGED <<srcOpen, dstHandle, hfHandle>>
    /\ UNCHANGED <<md5, sha1, source_size, output_size, total_read>>
    /\ UNCHANGED <<wrLog, md5Fed, sha1Fed, hfHist>>
    /\ UNCHANGED <<envVars, fsVars, hfVars, mainVars>>

\* A read that returns its bytes without moving the read offset.
ReadChunkNoAdvance ==
    /\ pc = "ih_read"
    /\ \E n \in ReadLengths(srcOff, chunk_size) :
          /\ chunk' = SubSeq(srcData, srcOff + 1, srcOff + n)
          /\ readLog' = IF n = 0 THEN readLog ELSE Append(readLog, chunk')
          /\ pc' = IF n = 0 THEN "ih_close" ELSE "ih_write"
    /\ UNCHANGED <<srcOpen, srcOff, dstHandle, hfHandle>>
    /\ UNCHANGED <<md5, sha1, source_size, output_size, total_read>>
    /\ UNCHANGED <<wrLog, md5Fed, sha1Fed, hfHist>>
    /\ UNCHANGED <<envVars, fsVars, hfVars, mainVars>>

\* lines 58-60: chunk = src.read(chunk_size); an empty chunk ends the loop.
ReadChunk ==
    /\ pc = "ih_read"
    /\ \E n \in ReadLengths(srcOff, chunk_size) :
          /\ chunk' = SubSeq(srcData, srcOff + 1, srcOff + n)
          /\ srcOff' = srcOff + n
          /\ readLog' = IF n = 0 THEN readLog ELSE Append(readLog, chunk')
          /\ pc' = IF n = 0 THEN "ih_close" ELSE "ih_write"
    /\ UNCHANGED <<srcOpen, dstHandle, hfHandle>>
    /\ UNCHANGED <<md5, sha1, source_size, output_size, total_read>>
    /\ UNCHANGED <<wrLog, md5Fed, sha1Fed, hfHist>>
    /\ UNCHANGED <<envVars, fsVars, hfVars, mainVars>>

\* A close that drops the writer's unflushed bytes instead of flushing them.
CloseBothNoFlush ==
    /\ srcOpen' = FALSE
    /\ dstWOpen' = FALSE
    /\ dstBuf' = <<>>
    /\ UNCHANGED <<srcOff, hfHandle, fsVars>>

\* The with statement's exit on an exception that is not a write fault:
\* dst is flushed and closed, src is closed.
CloseBoth ==
    /\ srcOpen' = FALSE
    /\ dstWOpen' = FALSE
    /\ dstFile' = dstFile \o dstBuf
    /\ dstBuf' = <<>>
    /\ UNCHANGED <<srcOff, hfHandle, dstExists, tampered>>

\* line 58 raises OSError: the with statement closes both handles.
\* A read error that only ends the loop: the function goes on to the size
\* query and returns.
ReadFailSwallowed ==
    /\ pc = "ih_read"
    /\ fault' = "read"
    /\ ioFaults
    /\ CloseBoth
    /\ pc' = "ih_outsize"
    /\ UNCHANGED <<inputVars, ihVars, hfVars, mainVars, histVars>>

ReadFail ==
    /\ pc = "ih_read"
    /\ fault' = "read"
    /\ ioFaults
    /\ CloseBoth
    /\ pc' = "err_other"
    /\ UNCHANGED <<inputVars, ihVars, hfVars, mainVars, histVars>>

\* line 61: dst.write(chunk) appends the chunk to the writer's buffer; the
\* writer may pass any prefix of its buffer on to the file.
WriteChunk ==
    /\ pc = "ih_write"
    /\ \E k \in 0..Len(dstBuf \o chunk) :
          /\ dstFile' = dstFile \o SubSeq(dstBuf \o chunk, 1, k)
          /\ dstBuf' = SubSeq(dstBuf \o chunk, k + 1, Len(dstBuf \o chunk))
    /\ wrLog' = Append(wrLog, chunk)
    /\ pc' = "ih_md5"
    /\ UNCHANGED <<dstExists, tampered, srcHandle, dstWOpen, hfHandle>>
    /\ UNCHANGED <<readLog, md5Fed, sha1Fed, hfHist>>
    /\ UNCHANGED <<envVars, ihVars, hfVars, mainVars>>

\* A write fault after which the partial image is removed.
WriteFailCleanup ==
    /\ pc = "ih_write"
    /\ fault' = "write"
    /\ ioFaults
    /\ dstExists' = FALSE
    /\ dstFile' = <<>>
    /\ dstBuf' = <<>>
    /\ srcOpen' = FALSE
    /\ dstWOpen' = FALSE
    /\ pc' = "err_other"
    /\ UNCHANGED <<tampered, srcOff, hfHandle>>
    /\ UNCHANGED <<inputVars, ihVars, hfVars, mainVars, histVars>>

\* line 61 raises OSError (disk full, device gone): some prefix of the
\* pending bytes has reached the file, the rest is lost, and the with
\* statement closes both handles.
WriteFail ==
    /\ pc = "ih_write"
    /\ fault' = "write"
    /\ ioFaults
    /\ \E k \in 0..Len(dstBuf \o chunk) :
          dstFile' = dstFile \o SubSeq(dstBuf \o chunk, 1, k)
    /\ dstBuf' = <<>>
    /\ srcOpen' = FALSE
    /\ dstWOpen' = FALSE
    /\ pc' = "err_other"
    /\ UNCHANGED <<dstExists, tampered, srcOff, hfHandle>>
    /\ UNCHANGED <<inputVars, ihVars, hfVars, mainVars, histVars>>

\* The chunk extended with zero bytes to n bytes.
Padded(c, n) == [i \in 1..(IF n > Len(c) THEN n ELSE Len(c)) |-> IF i <= Len(c) THEN c[i] ELSE 0]

\* A loop body that digests the whole chunk_size buffer, also when the read
\* filled only part of it.
UpdateMd5Padded ==
    /\ pc = "ih_md5"
    /\ md5' = Md5Update(md5, Padded(chunk, chunk_size))
    /\ md5Fed' = Append(md5Fed, chunk)
    /\ pc' = "ih_sha1"
    /\ UNCHANGED <<sha1, source_size, output_size, total_read, chunk>>
    /\ UNCHANGED <<readLog, wrLog, sha1Fed, hfHist>>
    /\ UNCHANGED <<envVars, fsVars, handleVars, hfVars, mainVars>>

\* A loop body that leaves a last, short chunk out of the MD5 digest.
UpdateMd5SkipShort ==
    /\ pc = "ih_md5"
    /\ md5' = IF Len(chunk) < chunk_size THEN md5 ELSE Md5Update(md5, chunk)
    /\ md5Fed' = Append(md5Fed, chunk)
    /\ pc' = "ih_sha1"
    /\ UNCHANGED <<sha1, source_size, output_size, total_read, chunk>>
    /\ UNCHANGED <<readLog, wrLog, sha1Fed, hfHist>>
    /\ UNCHANGED <<envVars, fsVars, handleVars, hfVars, mainVars>>

\* line 62: md5.update(chunk).
UpdateMd5 ==
    /\ pc = "ih_md5"
    /\ md5' = Md5Update(md5, chunk)
    /\ md5Fed' = Append(md5Fed, chunk)
    /\ pc' = "ih_sha1"
    /\ UNCHANGED <<sha1, source_size, output_size, total_read, chunk>>
    /\ UNCHANGED <<readLog, wrLog, sha1Fed, hfHist>>
    /\ UNCHANGED <<envVars, fsVars, handleVars, hfVars, mainVars>>

\* A loop body that feeds SHA1 the chunk twice.
UpdateSha1Twice ==
    /\ pc = "ih_sha1"
    /\ sha1' = Sha1Update(Sha1Update(sha1, chunk), chunk)
    /\ sha1Fed' = Append(Append(sha1Fed, chunk), chunk)
    /\ pc' = "ih_count"
    /\ UNCHANGED <<md5, source_size, output_size, total_read, chunk>>
    /\ UNCHANGED <<readLog, wrLog, md5Fed, hfHist>>
    /\ UNCHANGED <<envVars, fsVars, handleVars, hfVars, mainVars>>

\* line 63: sha1.update(chunk).
UpdateSha1 ==
    /\ pc = "ih_sha1"
    /\ sha1' = Sha1Update(sha1, chunk)
    /\ sha1Fed' = Append(sha1Fed, chunk)
    /\ pc' = "ih_count"
    /\ UNCHANGED <<md5, source_size, output_size, total_read, chunk>>
    /\ UNCHANGED <<readLog, wrLog, md5Fed, hfHist>>
    /\ UNCHANGED <<envVars, fsVars, handleVars, hfVars, mainVars>>

\* lines 64-67: total_read += len(chunk), then the next iteration.
\* A counter that adds the size asked for, not the size read.
CountChunkAsked ==
    /\ pc = "ih_count"
    /\ total_read' = total_read + chunk_size
    /\ pc' = "ih_read"
    /\ UNCHANGED <<md5, sha1, source_size, output_size, chunk>>
    /\ UNCHANGED <<envVars, fsVars, handleVars, hfVars, mainVars, histVars>>

CountChunk ==
    /\ pc = "ih_count"
    /\ total_read' = total_read + Len(chunk)
    /\ pc' = "ih_read"
    /\ UNCHANGED <<md5, sha1, source_size, output_size, chunk>>
    /\ UNCHANGED <<envVars, fsVars, handleVars, hfVars, mainVars, histVars>>

\* KeyboardInterrupt inside the with block of image_and_hash: both handles
\* are closed on the way out and main does not catch it.
InterruptCopy ==
    /\ pc \in {"ih_read", "ih_write", "ih_md5", "ih_sha1", "ih_count"}
    /\ fault' = "interrupt"
    /\ ioFaults
    /\ CloseBoth
    /\ pc' = "interrupted"
    /\ UNCHANGED <<inputVars, ihVars, hfVars, mainVars, histVars>>

\* A copy loop without the with statement: the loop ends and nothing is
\* flushed or closed.
CloseCopyLeak ==
    /\ pc = "ih_close"
    /\ pc' = "ih_outsize"
    /\ UNCHANGED <<envVars, fsVars, handleVars, ihVars, hfVars, mainVars, histVars>>

\* The end of the with block (line 67 to 69): dst is flushed and closed,
\* then src is closed.
CloseCopy ==
    /\ pc = "ih_close"
    /\ CloseBoth
    /\ pc' = "ih_outsize"
    /\ UNCHANGED <<envVars, ihVars, hfVars, mainVars, histVars>>

\* The flush at the end of the with block raises OSError: both handles are
\* closed all the same and the unflushed bytes are lost.
CloseCopyFail ==
    /\ pc = "ih_close"
    /\ fault' = "close"
    /\ ioFaults
    /\ dstBuf # <<>>
    /\ \E k \in 0..(Len(dstBuf) - 1) : dstFile' = dstFile \o SubSeq(dstBuf, 1, k)
    /\ dstBuf' = <<>>
    /\ srcOpen' = FALSE
    /\ dstWOpen' = FALSE
    /\ pc' = "err_other"
    /\ UNCHANGED <<dstExists, tampered, srcOff, hfHandle>>
    /\ UNCHANGED <<inputVars, ihVars, hfVars, mainVars, histVars>>

\* lines 70-75: the best-effort size of the image.
GetOutputSize ==
    /\ pc = "ih_outsize"
    /\ output_size' \in {Some(Len(dstFile))} \cup (IF ioFaults THEN {None} ELSE {})
    /\ pc' = "ih_return"
    /\ UNCHANGED <<md5, sha1, source_size, total_read, chunk>>
    /\ UNCHANGED <<envVars, fsVars, handleVars, hfVars, mainVars, histVars>>

\* line 83 and main line 182: the digests are finalized and returned.
ReturnImage ==
    /\ pc = "ih_return"
    /\ md5_copy' = Md5Hexdigest(md5)
    /\ sha1_copy' = Sha1Hexdigest(sha1)
    /\ pc' = "hf_open"
    /\ UNCHANGED <<md5_verify, sha1_verify, matchVars, outcomeVars>>
    /\ UNCHANGED <<envVars, fsVars, handleVars, ihVars, hfVars, histVars>>

\* ----------------------------------------- between the copy and the verify
\* The image is changed on disk by someone else after image_and_hash has
\* returned and before hash_file opens it: its last byte is cut off, or one
\* of its bytes is changed.  At most once per run.
Tamper ==
    /\ pc = "hf_open"
    /\ tampered = "none"
    /\ dstFile # <<>>
    /\ \/ /\ dstFile' = SubSeq(dstFile, 1, Len(dstFile) - 1)
          /\ tampered' = "truncate"
       \/ /\ \E i \in 1..Len(dstFile) : dstFile' = [dstFile EXCEPT ![i] = 1 - @]
          /\ tampered' = "flip"
    /\ UNCHANGED <<dstExists, pc>>
    /\ UNCHANGED <<envVars, handleVars, ihVars, hfVars, mainVars, histVars>>

\* ------------------------------------------------------------ hash_file
\* A hash_file whose digest objects are created once and kept between
\* calls.
HashOpenReuse ==
    /\ pc = "hf_open"
    /\ dstExists
    /\ hf_total_read' = 0
    /\ dstROpen' = TRUE
    /\ hfOff' = 0
    /\ pc' = "hf_read"
    /\ UNCHANGED <<hf_md5, hf_sha1, hf_chunk, srcHandle, dstHandle>>
    /\ UNCHANGED <<envVars, fsVars, ihVars, mainVars, histVars>>

\* A hash_file that goes on with the digest states of the copy.
HashOpenShared ==
    /\ pc = "hf_open"
    /\ dstExists
    /\ hf_md5' = md5
    /\ hf_sha1' = sha1
    /\ hf_total_read' = 0
    /\ dstROpen' = TRUE
    /\ hfOff' = 0
    /\ pc' = "hf_read"
    /\ UNCHANGED <<hf_chunk, srcHandle, dstHandle>>
    /\ UNCHANGED <<envVars, fsVars, ihVars, mainVars, histVars>>

\* lines 20-24: new digest states, total_read = 0, open(path, "rb").
HashOpen ==
    /\ pc = "hf_open"
    /\ dstExists
    /\ hf_md5' = Md5New
    /\ hf_sha1' = Sha1New
    /\ hf_total_read' = 0
    /\ dstROpen' = TRUE
    /\ hfOff' = 0
    /\ pc' = "hf_read"
    /\ UNCHANGED <<hf_chunk, srcHandle, dstHandle>>
    /\ UNCHANGED <<envVars, fsVars, ihVars, mainVars, histVars>>

\* line 24, open(path, "rb") raises PermissionError.
HashOpenFail ==
    /\ pc = "hf_open"
    /\ fault' = "hf_open"
    /\ ioFaults
    /\ pc' = "err_perm"
    /\ UNCHANGED <<inputVars, fsVars, handleVars, ihVars, hfVars, mainVars, histVars>>

\* lines 26-28: chunk = f.read(chunk_size) on a buffered reader, which
\* returns chunk_size bytes or all that is left; an empty chunk ends the loop.
HashRead ==
    /\ pc = "hf_read"
    /\ LET n == Min(hf_chunk_size, Len(dstFile) - hfOff)
       IN  /\ hf_chunk' = SubSeq(dstFile, hfOff + 1, hfOff + n)
           /\ hfOff' = hfOff + n
           /\ hfReadLog' = IF n = 0 THEN hfReadLog ELSE Append(hfReadLog, hf_chunk')
           /\ pc' = IF n = 0 THEN "hf_close" ELSE "hf_md5"
    /\ UNCHANGED <<dstROpen, srcHandle, dstHandle>>
    /\ UNCHANGED <<hf_md5, hf_sha1, hf_total_read>>
    /\ UNCHANGED <<hfMd5Fed, hfSha1Fed, ihHist>>
    /\ UNCHANGED <<envVars, fsVars, ihVars, mainVars>>

\* line 26 raises OSError: the with statement closes f.
HashReadFail ==
    /\ pc = "hf_read"
    /\ fault' = "hf_read"
    /\ ioFaults
    /\ dstROpen' = FALSE
    /\ pc' = "err_other"
    /\ UNCHANGED <<hfOff, srcHandle, dstHandle>>
    /\ UNCHANGED <<inputVars, fsVars, ihVars, hfVars, mainVars, histVars>>

\* line 29: md5.update(chunk).
HashUpdateMd5 ==
    /\ pc = "hf_md5"
    /\ hf_md5' = Md5Update(hf_md5, hf_chunk)
    /\ hfMd5Fed' = Append(hfMd5Fed, hf_chunk)
    /\ pc' = "hf_sha1"
    /\ UNCHANGED <<hf_sha1, hf_total_read, hf_chunk>>
    /\ UNCHANGED <<hfReadLog, hfSha1Fed, ihHist>>
    /\ UNCHANGED <<envVars, fsVars, handleVars, ihVars, mainVars>>

\* line 30: sha1.update(chunk).
HashUpdateSha1 ==
    /\ pc = "hf_sha1"
    /\ hf_sha1' = Sha1Update(hf_sha1, hf_chunk)
    /\ hfSha1Fed' = Append(hfSha1Fed, hf_chunk)
    /\ pc' = "hf_count"
    /\ UNCHANGED <<hf_md5, hf_total_read, hf_chunk>>
    /\ UNCHANGED <<hfReadLog, hfMd5Fed, ihHist>>
    /\ UNCHANGED <<envVars, fsVars, handleVars, ihVars, mainVars>>

\* lines 31-33: total_read += len(chunk), then the next iteration.
HashCount ==
    /\ pc = "hf_count"
    /\ hf_total_read' = hf_total_read + Len(hf_chunk)
    /\ pc' = "hf_read"
    /\ UNCHANGED <<hf_md5, hf_sha1, hf_chunk>>
    /\ UNCHANGED <<envVars, fsVars, handleVars, ihVars, mainVars, histVars>>

\* KeyboardInterrupt inside the with block of hash_file: f is closed on the
\* way out and main does not catch it.
InterruptHash ==
    /\ pc \in {"hf_read", "hf_md5", "hf_sha1", "hf_count"}
    /\ fault' = "interrupt"
    /\ ioFaults
    /\ dstROpen' = FALSE
    /\ pc' = "interrupted"
    /\ UNCHANGED <<hfOff, srcHandle, dstHandle>>
    /\ UNCHANGED <<inputVars, fsVars, ihVars, hfVars, mainVars, histVars>>

\* The end of the with block (line 33 to 35): f is closed.
HashClose ==
    /\ pc = "hf_close"
    /\ dstROpen' = FALSE
    /\ pc' = "hf_return"
    /\ UNCHANGED <<hfOff, srcHandle, dstHandle>>
    /\ UNCHANGED <<envVars, fsVars, ihVars, hfVars, mainVars, histVars>>

\* A verify phase that returns the digests of the copy's digest states.
ReturnHashCopyState ==
    /\ pc = "hf_return"
    /\ md5_verify' = Md5Hexdigest(md5)
    /\ sha1_verify' = Sha1Hexdigest(sha1)
    /\ pc' = "m_compare"
    /\ UNCHANGED <<md5_copy, sha1_copy, matchVars, outcomeVars>>
    /\ UNCHANGED <<envVars, fsVars, handleVars, ihVars, hfVars, histVars>>

\* line 36 and main line 186: the digests are finalized and returned.
ReturnHash ==
    /\ pc = "hf_return"
    /\ md5_verify' = Md5Hexdigest(hf_md5)
    /\ sha1_verify' = Sha1Hexdigest(hf_sha1)
    /\ pc' = "m_compare"
    /\ UNCHANGED <<md5_copy, sha1_copy, matchVars, outcomeVars>>
    /\ UNCHANGED <<envVars, fsVars, handleVars, ihVars, hfVars, histVars>>

\* ---------------------------------------------------- main: the outcome
\* lines 191-192.
YesNo(b) == IF b THEN "YES" ELSE "NO"

\* A size comparison that tests the sizes for truth instead of for None, so
\* that a size of 0 counts as unknown.
SizeMatchTruthy(ssize, osize) ==
    IF (~IsNone(ssize) /\ Val(ssize) # 0) /\ (~IsNone(osize) /\ Val(osize) # 0)
    THEN (IF Val(ssize) = Val(osize) THEN "YES" ELSE "NO")
    ELSE "UNKNOWN"

\* lines 220-223.
SizeMatchOf(ssize, osize) ==
    IF ~IsNone(ssize) /\ ~IsNone(osize)
    THEN (IF Val(ssize) = Val(osize) THEN "YES" ELSE "NO")
    ELSE "UNKNOWN"

Successful == "Image creation SUCCESSFUL. Integrity verified by size and hash match."
HashOnly == "Image hashes match, but size comparison was not fully available."
Warning == "WARNING: Hash mismatch detected. Image may be corrupted or modified."

\* A conclusion that takes every size result but "NO" for a size match.
ConclusionNoSize(md5b, sha1b, smatch) ==
    IF md5b /\ sha1b /\ smatch # "NO" THEN Successful
    ELSE IF md5b /\ sha1b THEN HashOnly
    ELSE Warning

\* A conclusion that is content with one matching digest.
ConclusionAnyDigest(md5b, sha1b, smatch) ==
    IF (md5b \/ sha1b) /\ smatch = "YES" THEN Successful
    ELSE IF md5b \/ sha1b THEN HashOnly
    ELSE Warning

\* lines 225-230.
ConclusionOf(md5b, sha1b, smatch) ==
    IF md5b /\ sha1b /\ smatch = "YES" THEN Successful
    ELSE IF md5b /\ sha1b THEN HashOnly
    ELSE Warning

\* A comparison in which the MD5 result also asks for equal SHA1 digests.
MainCompareCoupled ==
    /\ pc = "m_compare"
    /\ md5_match_bool' = (md5_copy = md5_verify /\ sha1_copy = sha1_verify)
    /\ sha1_match_bool' = (sha1_copy = sha1_verify)
    /\ md5_match' = YesNo(md5_match_bool')
    /\ sha1_match' = YesNo(sha1_match_bool')
    /\ pc' = "m_confirm"
    /\ UNCHANGED <<digestVars, outcomeVars>>
    /\ UNCHANGED <<envVars, fsVars, handleVars, ihVars, hfVars, histVars>>

\* A comparison of the copy digests with themselves.
MainCompareSelf ==
    /\ pc = "m_compare"
    /\ md5_match_bool' = (md5_copy = md5_copy)
    /\ sha1_match_bool' = (sha1_copy = sha1_copy)
    /\ md5_match' = YesNo(md5_match_bool')
    /\ sha1_match' = YesNo(sha1_match_bool')
    /\ pc' = "m_confirm"
    /\ UNCHANGED <<digestVars, outcomeVars>>
    /\ UNCHANGED <<envVars, fsVars, handleVars, ihVars, hfVars, histVars>>

\* A comparison that raises on a digest mismatch instead of recording it.
MainCompareRaise ==
    /\ pc = "m_compare"
    /\ md5_match_bool' = (md5_copy = md5_verify)
    /\ sha1_match_bool' = (sha1_copy = sha1_verify)
    /\ md5_match' = YesNo(md5_match_bool')
    /\ sha1_match' = YesNo(sha1_match_bool')
    /\ pc' = IF md5_match_bool' /\ sha1_match_bool' THEN "m_confirm" ELSE "err_other"
    /\ UNCHANGED <<digestVars, outcomeVars>>
    /\ UNCHANGED <<envVars, fsVars, handleVars, ihVars, hfVars, histVars>>

\* lines 188-192: a digest matches when the two hex strings are equal.
MainCompare ==
    /\ pc = "m_compare"
    /\ md5_match_bool' = (md5_copy = md5_verify)
    /\ sha1_match_bool' = (sha1_copy = sha1_verify)
    /\ md5_match' = YesNo(md5_match_bool')
    /\ sha1_match' = YesNo(sha1_match_bool')
    /\ pc' = "m_confirm"
    /\ UNCHANGED <<digestVars, outcomeVars>>
    /\ UNCHANGED <<envVars, fsVars, handleVars, ihVars, hfVars, histVars>>

\* lines 214-218: the examiner's answer, lower-cased and stripped.
MainConfirm ==
    /\ pc = "m_confirm"
    /\ \E user_input \in {"yes", "y", "no", ""} :
          user_confirm' = IF user_input \in {"yes", "y"} THEN "YES" ELSE "NO"
    /\ pc' = "m_size"
    /\ UNCHANGED <<size_match, conclusion, report, digestVars, matchVars>>
    /\ UNCHANGED <<envVars, fsVars, handleVars, ihVars, hfVars, histVars>>

\* lines 220-223.
MainSizeMatch ==
    /\ pc = "m_size"
    /\ size_match' = SizeMatchOf(source_size, output_size)
    /\ pc' = "m_conclude"
    /\ UNCHANGED <<user_confirm, conclusion, report, digestVars, matchVars>>
    /\ UNCHANGED <<envVars, fsVars, handleVars, ihVars, hfVars, histVars>>

\* lines 225-230.
MainConclude ==
    /\ pc = "m_conclude"
    /\ conclusion' = ConclusionOf(md5_match_bool, sha1_match_bool, size_match)
    /\ pc' = "m_report"
    /\ UNCHANGED <<user_confirm, size_match, report, digestVars, matchVars>>
    /\ UNCHANGED <<envVars, fsVars, handleVars, ihVars, hfVars, histVars>>

\* lines 232-258: report_data is built and handed to write_report.
MainReport ==
    /\ pc = "m_report"
    /\ report' = Some([source_size |-> source_size, output_size |-> output_size,
                       size_match |-> size_match,
                       md5_copy |-> md5_copy, sha1_copy |-> sha1_copy,
                       md5_verify |-> md5_verify, sha1_verify |-> sha1_verify,
                       md5_match |-> md5_match, sha1_match |-> sha1_match,
                       user_confirm |-> user_confirm, conclusion |-> conclusion])
    /\ pc' = "done"
    /\ UNCHANGED <<user_confirm, size_match, conclusion, digestVars, matchVars>>
    /\ UNCHANGED <<envVars, fsVars, handleVars, ihVars, hfVars, histVars>>

\* line 253, write_report raises OSError: caught at line 265.
MainReportFail ==
    /\ pc = "m_report"
    /\ fault' = "report"
    /\ ioFaults
    /\ pc' = "err_other"
    /\ UNCHANGED <<inputVars, fsVars, handleVars, ihVars, hfVars, mainVars, histVars>>

\* ------------------------------------------------------ specifications
Next ==
    \/ MainNoSource \/ MainCallImage
    \/ GetSourceSize \/ OpenSource \/ OpenSourceFail \/ OpenDest \/ OpenDestFail
    \/ ReadChunk \/ ReadFail \/ WriteChunk \/ WriteFail
    \/ UpdateMd5 \/ UpdateSha1 \/ CountChunk \/ InterruptCopy
    \/ CloseCopy \/ CloseCopyFail \/ GetOutputSize \/ ReturnImage
    \/ Tamper
    \/ HashOpen \/ HashOpenFail \/ HashRead \/ HashReadFail
    \/ HashUpdateMd5 \/ HashUpdateSha1 \/ HashCount \/ InterruptHash
    \/ HashClose \/ ReturnHash
    \/ MainCompare \/ MainConfirm \/ MainSizeMatch \/ MainConclude
    \/ MainReport \/ MainReportFail

Spec == Init /\ [][Next]_vars

\* main as it is written: both phases run with the default chunk size of
\* lines 18 and 38, and disk_image.dd does not exist yet.
FairInit ==
    /\ Init
    /\ hf_chunk_size = chunk_size
    /\ ~dstExists

\* The interpreter runs the one thread of main: a statement that can be
\* executed is executed.
FairSpec == FairInit /\ [][Next]_vars /\ WF_vars(Next)

\* The comparison of main (lines 188-230) as a function of what the two
\* phases returned.  Two different images can share one algorithm's digest
\* and differ in the other's, and a size query can give any size, so every
\* combination of returned values is drawn.
SomeSizes == {None} \cup {Some(n) : n \in 0..MaxLen}
SomeMd5 == {Md5Of(<<>>), Md5Of(<<1>>)}
SomeSha1 == {Sha1Of(<<>>), Sha1Of(<<1>>)}

CmpInit ==
    /\ srcData = <<>> /\ srcKind = "file" /\ srcExists = TRUE /\ pathGiven = TRUE
    /\ chunk_size = 1 /\ hf_chunk_size = 1
    /\ ioFaults \in BOOLEAN
    /\ dstExists = TRUE /\ dstFile = <<>> /\ tampered = "none"
    /\ fault = "none"
    /\ srcOpen = FALSE /\ srcOff = 0
    /\ dstWOpen = FALSE /\ dstBuf = <<>>
    /\ dstROpen = FALSE /\ hfOff = 0
    /\ md5 = Md5New /\ sha1 = Sha1New
    /\ source_size \in SomeSizes /\ output_size \in SomeSizes
    /\ total_read = 0 /\ chunk = <<>>
    /\ hf_md5 = Md5New /\ hf_sha1 = Sha1New
    /\ hf_total_read = 0 /\ hf_chunk = <<>>
    /\ md5_copy \in SomeMd5 /\ md5_verify \in SomeMd5
    /\ sha1_copy \in SomeSha1 /\ sha1_verify \in SomeSha1
    /\ md5_match_bool = FALSE /\ sha1_match_bool = FALSE
    /\ md5_match = "" /\ sha1_match = ""
    /\ user_confirm = "" /\ size_match = "" /\ conclusion = ""
    /\ report = None
    /\ readLog = <<>> /\ wrLog = <<>> /\ md5Fed = <<>> /\ sha1Fed = <<>>
    /\ hfReadLog = <<>> /\ hfMd5Fed = <<>> /\ hfSha1Fed = <<>>
    /\ hfRuns = <<>>
    /\ NoSteg
    /\ pc = "m_compare"

CmpNext ==
    \/ MainCompare \/ MainConfirm \/ MainSizeMatch \/ MainConclude
    \/ MainReport \/ MainReportFail

CmpSpec == CmpInit /\ [][CmpNext]_vars

\* ------------------------------------------- hash_file called on its own
\* hash_file(path, chunk_size), line 18, called again by its caller on the
\* same path once the previous call returned: the returned pair is kept
\* in hfRuns, the locals of the call are new.
HashAgain ==
    /\ pc = "m_compare"
    /\ Len(hfRuns) < MaxRuns
    /\ hfRuns' = Append(hfRuns, <<md5_verify, sha1_verify>>)
    /\ hf_chunk_size' \in 1..MaxChunk
    /\ md5_verify' = None
    /\ sha1_verify' = None
    /\ hfReadLog' = <<>>
    /\ hfMd5Fed' = <<>>
    /\ hfSha1Fed' = <<>>
    /\ pc' = "hf_open"
    /\ UNCHANGED <<srcData, srcKind, srcExists, pathGiven, chunk_size, ioFaults, stegVars>>
    /\ UNCHANGED <<fault, fsVars, handleVars, ihVars, hfVars, ihHist>>
    /\ UNCHANGED <<md5_copy, sha1_copy, matchVars, outcomeVars>>

\* hash_file alone, lines 18-36: any existing file, any chunk size, no
\* copy before it.
VerifyInit ==
    /\ srcData = <<>> /\ srcKind = "file" /\ srcExists = TRUE /\ pathGiven = TRUE
    /\ chunk_size = 1
    /\ hf_chunk_size \in 1..MaxChunk
    /\ ioFaults \in BOOLEAN
    /\ dstExists = TRUE
    /\ dstFile \in Contents
    /\ fault = "none"
    /\ Fresh
    /\ NoSteg
    /\ pc = "hf_open"

VerifyNext ==
    \/ HashOpen \/ HashOpenFail \/ HashRead \/ HashReadFail
    \/ HashUpdateMd5 \/ HashUpdateSha1 \/ HashCount \/ InterruptHash
    \/ HashClose \/ ReturnHash \/ HashAgain \/ Tamper

VerifySpec == VerifyInit /\ [][VerifyNext]_vars

\* ------------------------------------------------------ stegano_foren.py
\* A text is a sequence of code points (ord), a bit string a sequence of
\* 0 and 1, a file a sequence of bytes 0..255.

\* line 13: TERMINATOR = "####END####".
TERMINATOR == <<35, 35, 35, 35, 69, 78, 68, 35, 35, 35, 35>>

\* line 79: the default of extract_message's max_chars.
max_chars == 5000

\* The binary digits of n, most significant first, as format(n, "b").
RECURSIVE Bin(_)
Bin(n) == IF n < 2 THEN <<n>> ELSE Append(Bin(n \div 2), n % 2)

\* f"{n:08b}": the binary digits padded with zeros to at least 8.
Format08b(n) ==
    LET b == Bin(n)
    IN  IF Len(b) >= 8 THEN b ELSE [i \in 1..(8 - Len(b)) |-> 0] \o b

\* lines 26-27.
RECURSIVE text_to_bits(_)
text_to_bits(text) ==
    IF text = <<>> THEN <<>> ELSE Format08b(Head(text)) \o text_to_bits(Tail(text))

\* int(byte, 2).
RECURSIVE IntOfBits(_)
IntOfBits(bits) ==
    IF bits = <<>> THEN 0
    ELSE 2 * IntOfBits(SubSeq(bits, 1, Len(bits) - 1)) + bits[Len(bits)]

\* lines 30-37: one character per complete group of 8 bits.
bits_to_text(bits) ==
    [i \in 1..(Len(bits) \div 8) |-> IntOfBits(SubSeq(bits, 8 * (i - 1) + 1, 8 * i))]

\* str.find: the lowest 0-based index where pat occurs in text, or -1.
Find(text, pat) ==
    LET hits == {i \in 0..(Len(text) - Len(pat)) :
                    SubSeq(text, i + 1, i + Len(pat)) = pat}
    IN  IF hits = {} THEN -1
        ELSE CHOOSE i \in hits : \A j \in hits : i <= j

\* lines 44-50: the bits of message + TERMINATOR.
EmbedBits(msg) == text_to_bits(msg \o TERMINATOR)

\* lines 51-52: data[i] = (data[i] & 0b11111110) | int(b).
EmbedBytes(data, bits) ==
    [i \in 1..Len(data) |->
        IF i <= Len(bits) THEN (data[i] \div 2) * 2 + bits[i] ELSE data[i]]

\* lines 79-93: the value extract_message returns for a file content.
ExtractValue(data) ==
    LET n == Min(Len(data), max_chars * 8)
        bits == [i \in 1..n |-> data[i] % 2]
        text == bits_to_text(bits)
        end_idx == Find(text, TERMINATOR)
    IN  IF end_idx = -1 THEN None ELSE Some(SubSeq(text, 1, end_idx))

\* Messages: every text over "#" and "A" up to MaxMsgLen characters, and
\* the proper beginnings of the terminator.
MsgChars == {35, 65}

RECURSIVE TextsUpTo(_)
TextsUpTo(n) ==
    IF n = 0 THEN {<<>>}
    ELSE LET shorter == TextsUpTo(n - 1)
         IN  shorter \cup {Append(s, c) : s \in {t \in shorter : Len(t) = n - 1}, c \in MsgChars}

Messages ==
    TextsUpTo(MaxMsgLen) \cup {SubSeq(TERMINATOR, 1, k) : k \in 1..(Len(TERMINATOR) - 1)}

\* Covers: the bytes of create_sample_cover (lines 19-20), all 0x00 or all
\* 0xFF, of the lengths just enough and one too short for the messages.
CoverLens ==
    {0} \cup {8 * (Len(m) + Len(TERMINATOR)) - d : m \in Messages, d \in {0, 1}}

Covers ==
    UNION {{[i \in 1..n |-> ((i - 1) * 73 + 31) % 256],
            [i \in 1..n |-> 0],
            [i \in 1..n |-> 255]} : n \in CoverLens}

\* What an output path may hold before embed_message runs.
OldStego == <<7>>

ftkVars == <<srcData, srcKind, srcExists, pathGiven, chunk_size, hf_chunk_size,
             ioFaults, hfRuns, fault, fsVars, handleVars, ihVars, hfVars,
             mainVars, pc, histVars>>

\* lines 40-54, enough room: the cover with the bits in its low bits is
\* written to out_path.
EmbedMessage ==
    /\ st_pc = "menu"
    /\ Len(EmbedBits(message)) <= Len(coverFile)
    /\ stegoFile' = Some(EmbedBytes(coverFile, EmbedBits(message)))
    /\ st_pc' = "embedded"
    /\ UNCHANGED <<message, coverFile, extracted, ftkVars>>

\* lines 47-48: raise ValueError("Cover file too small for this message.").
EmbedTooSmall ==
    /\ st_pc = "menu"
    /\ Len(EmbedBits(message)) > Len(coverFile)
    /\ st_pc' = "value_error"
    /\ UNCHANGED <<message, coverFile, stegoFile, extracted, ftkVars>>

\* lines 79-93 on the file embed_message wrote.
ExtractMessage ==
    /\ st_pc = "embedded"
    /\ extracted' = ExtractValue(Val(stegoFile))
    /\ st_pc' = "extracted"
    /\ UNCHANGED <<message, coverFile, stegoFile, ftkVars>>

StegInit ==
    /\ srcData = <<>> /\ srcKind = "file" /\ srcExists = FALSE /\ pathGiven = FALSE
    /\ chunk_size = 1 /\ hf_chunk_size = 1
    /\ ioFaults = FALSE
    /\ dstExists = FALSE /\ dstFile = <<>>
    /\ fault = "none"
    /\ Fresh
    /\ pc = "exit"
    /\ message \in Messages
    /\ coverFile \in Covers
    /\ stegoFile \in {None, Some(OldStego)}
    /\ extracted = None
    /\ st_pc = "menu"

StegNext == EmbedMessage \/ EmbedTooSmall \/ ExtractMessage

StegSpec == StegInit /\ [][StegNext]_vars

\* =================================================================== claims
CopyPcs == {"ih_getsize", "ih_open_src", "ih_open_dst", "ih_read", "ih_write",
            "ih_md5", "ih_sha1", "ih_count", "ih_close", "ih_outsize", "ih_return"}
VerifyPcs == {"hf_read", "hf_md5", "hf_sha1", "hf_count", "hf_close", "hf_return"}
OutcomePcs == {"m_compare", "m_confirm", "m_size", "m_conclude", "m_report", "done"}
FinalPcs == {"exit", "done", "err_perm", "err_notfound", "err_other", "interrupted"}

\* The copy has completed without an I/O error and the image is as the copy
\* left it.
CopyComplete ==
    \/ pc \in {"ih_outsize", "ih_return"}
    \/ pc = "hf_open" /\ tampered = "none"

\* C1: when image_and_hash completes without an I/O error, the destination
\* holds exactly the concatenation, in read order, of the chunks read from
\* the source, which is the source content, for every content and chunk size.
C1_FaithfulCopy ==
    CopyComplete => /\ dstFile = Flatten(readLog)
                    /\ dstFile = srcData
                    /\ dstBuf = <<>>

\* C1 witness: a completed copy of a source of three bytes read in two or
\* more chunks, one of them shorter than chunk_size before the end.
C1_Witness ==
    /\ pc = "ih_outsize"
    /\ Len(srcData) >= 3
    /\ Len(readLog) >= 2
    /\ Len(readLog[1]) < chunk_size
    /\ dstFile = srcData

\* C2: in the copy phase every chunk written to the destination is fed
\* exactly once, in arrival order, to the MD5 state and to the SHA1 state and
\* nothing else is fed; the copy-phase digests are the digests of the byte
\* sequence written, and both algorithms have seen the same chunk sequence.
C2_FedWhatWasWritten ==
    /\ pc \in {"ih_read", "ih_close", "ih_outsize", "ih_return"}
          => /\ md5Fed = wrLog /\ sha1Fed = wrLog
             /\ md5 = Md5Update(Md5New, Flatten(wrLog))
             /\ sha1 = Sha1Update(Sha1New, Flatten(wrLog))
    /\ pc = "ih_md5" => wrLog = Append(md5Fed, chunk) /\ wrLog = Append(sha1Fed, chunk)
    /\ pc = "ih_sha1" => wrLog = md5Fed /\ wrLog = Append(sha1Fed, chunk)
    /\ pc = "ih_count" => wrLog = md5Fed /\ wrLog = sha1Fed
    /\ pc \in {"hf_open"} \cup VerifyPcs \cup OutcomePcs
          => /\ md5Fed = wrLog /\ sha1Fed = wrLog
             /\ md5_copy = Md5Of(Flatten(wrLog))
             /\ sha1_copy = Sha1Of(Flatten(wrLog))
             /\ (tampered = "none" => md5_copy = Md5Of(dstFile) /\ sha1_copy = Sha1Of(dstFile))

\* C2 witness: the copy has returned digests after writing two chunks or more.
C2_Witness ==
    /\ pc = "hf_open"
    /\ Len(wrLog) >= 2
    /\ md5_copy = Md5Of(Flatten(wrLog))
    /\ sha1_copy = Sha1Of(Flatten(wrLog))

\* C3: the verify phase never starts while the copy phase holds the
\* destination open: whenever hash_file has the destination open for
\* reading, the write handle of image_and_hash is closed and has no
\* unflushed bytes, so a writer and a reader never coexist.
C3_NoReaderWithWriter ==
    /\ ~(dstWOpen /\ dstROpen)
    /\ (dstROpen \/ pc = "hf_open") => ~dstWOpen /\ dstBuf = <<>>

\* C3 witness: hash_file is reading an image the copy wrote chunks to.
C3_Witness ==
    /\ dstROpen
    /\ pc = "hf_md5"
    /\ wrLog # <<>>
    /\ ~dstWOpen

\* C4 (result part): the verify phase is independent of the copy phase: the digests
\* hash_file returns are those of the bytes stored in the destination at
\* verify time, read through its own handle into its own digest states, and
\* no step of hash_file changes a handle, buffer or digest state of
\* image_and_hash.
C4_VerifyResult ==
    pc \in OutcomePcs
        => /\ Flatten(hfReadLog) = dstFile
           /\ hfMd5Fed = hfReadLog /\ hfSha1Fed = hfReadLog
           /\ md5_verify = Md5Of(dstFile)
           /\ sha1_verify = Sha1Of(dstFile)

CopyState == <<md5, sha1, chunk, total_read, srcHandle, dstHandle,
               md5_copy, sha1_copy, ihHist>>

\* C4: the verify result is that of the stored bytes in every state, and
\* every step taken while hash_file runs leaves the copy's state unchanged.
C4_VerifyIndependent ==
    /\ []C4_VerifyResult
    /\ [][(pc \in ({"hf_open"} \cup VerifyPcs)) => (CopyState' = CopyState)]_vars

\* C4 witness: the image was changed after the copy, and the verify digests
\* are those of the changed image, not those of the copy.
C4_Witness ==
    /\ pc = "m_compare"
    /\ tampered = "flip"
    /\ md5_verify = Md5Of(dstFile)
    /\ md5_verify # md5_copy
    /\ sha1_verify # sha1_copy

\* C5: every stream handle opened by the copy phase or the verify phase is
\* closed on every exit path (end of stream, an I/O error of a read or
\* write, a failing open of the destination after the source is open, an
\* interruption): no final state has an open handle, and no handle of the
\* copy is open once the copy is left.
C5_HandlesClosed ==
    /\ pc \in FinalPcs => ~srcOpen /\ ~dstWOpen /\ ~dstROpen
    /\ pc \notin CopyPcs => ~srcOpen /\ ~dstWOpen
    /\ pc \notin VerifyPcs => ~dstROpen

\* C5 witness: the open of the destination failed after the source had been
\* opened (the destination path does not exist and the run has failed).
C5_Witness ==
    /\ pc = "err_other"
    /\ ~dstExists
    /\ srcExists
    /\ ~srcOpen

\* C6: size_match is "YES" if both sizes are known and equal, "NO" if both
\* are known and unequal, "UNKNOWN" if either is unknown; a known size of 0
\* counts as known.
C6_SizeMatch ==
    size_match # ""
        => /\ size_match \in {"YES", "NO", "UNKNOWN"}
           /\ size_match = "YES" <=> /\ source_size # None /\ output_size # None
                                     /\ source_size[1] = output_size[1]
           /\ size_match = "NO" <=> /\ source_size # None /\ output_size # None
                                    /\ source_size[1] # output_size[1]
           /\ size_match = "UNKNOWN" <=> (source_size = None \/ output_size = None)

\* C6 witness: both sizes are known to be 0 and size_match is "YES".
C6_Witness ==
    /\ size_match = "YES"
    /\ source_size = Some(0)
    /\ output_size = Some(0)

\* C7: for each algorithm digest_match is MATCH ("YES") if and only if the
\* copy-phase and the verify-phase hex digests of that algorithm are equal
\* strings, whatever the other algorithm's digests are.
C7_DigestMatch ==
    md5_match # ""
        => /\ md5_match \in {"YES", "NO"} /\ sha1_match \in {"YES", "NO"}
           /\ md5_match = "YES" <=> md5_copy = md5_verify
           /\ sha1_match = "YES" <=> sha1_copy = sha1_verify
           /\ md5_match_bool <=> md5_copy = md5_verify
           /\ sha1_match_bool <=> sha1_copy = sha1_verify

\* C7 witness: the MD5 digests are equal and the SHA1 digests are not, and
\* the MD5 match is "YES" while the SHA1 match is "NO".
C7_Witness ==
    /\ md5_match = "YES"
    /\ sha1_match = "NO"
    /\ md5_copy = md5_verify
    /\ sha1_copy # sha1_verify

\* C8: the conclusion is SUCCESS only if size_match is MATCH and the
\* digest_match of every algorithm is MATCH.
C8_SuccessOnlyIfAllMatch ==
    conclusion = Successful
        => /\ size_match = "YES"
           /\ md5_match = "YES" /\ md5_copy = md5_verify
           /\ sha1_match = "YES" /\ sha1_copy = sha1_verify

\* C8 witness: the SUCCESS conclusion has been drawn.
C8_Witness ==
    /\ conclusion = Successful
    /\ size_match = "YES"

\* C9: the "verified by hash only" conclusion is drawn when every digest
\* matches and size_match is UNKNOWN, and is not drawn when size_match is a
\* known MISMATCH.
C9_HashOnlyIsForUnknownSize ==
    conclusion # ""
        => /\ (md5_match = "YES" /\ sha1_match = "YES" /\ size_match = "UNKNOWN")
                  => conclusion = HashOnly
           /\ size_match = "NO" => conclusion # HashOnly

\* C10: if at least one algorithm's digest_match is MISMATCH, the conclusion
\* is the hard failure, whatever size_match is.
C10_MismatchIsFailure ==
    (conclusion # "" /\ (md5_match = "NO" \/ sha1_match = "NO"))
        => conclusion = Warning

\* C10 witness: one digest matches, the other does not, the sizes match, and
\* the conclusion is the hard failure.
C10_Witness ==
    /\ conclusion = Warning
    /\ md5_match = "YES"
    /\ sha1_match = "NO"
    /\ size_match = "YES"

ErrPcs == {"err_perm", "err_notfound", "err_other"}

IsPrefix(a, b) == Len(a) <= Len(b) /\ a = SubSeq(b, 1, Len(a))

\* C11: a digest or size mismatch never puts the operation in an error
\* state: once both phases have returned, every step up to the report is
\* enabled, the only error left is a failing write of the report, and the
\* finished run holds an outcome record with the sizes, both digest pairs,
\* size_match, the per-algorithm matches and the conclusion, the mismatch
\* being recorded in it.
C11_MismatchIsData ==
    /\ pc \in (OutcomePcs \ {"done"})
          => ENABLED (MainCompare \/ MainConfirm \/ MainSizeMatch \/ MainConclude \/ MainReport)
    /\ (pc \in ErrPcs \cup {"interrupted"} /\ md5_verify # None) => fault = "report"
    /\ pc = "done"
          => /\ fault = "none"
             /\ report = Some([source_size |-> source_size, output_size |-> output_size,
                               size_match |-> SizeMatchOf(source_size, output_size),
                               md5_copy |-> md5_copy, sha1_copy |-> sha1_copy,
                               md5_verify |-> md5_verify, sha1_verify |-> sha1_verify,
                               md5_match |-> YesNo(md5_copy = md5_verify),
                               sha1_match |-> YesNo(sha1_copy = sha1_verify),
                               user_confirm |-> user_confirm, conclusion |-> conclusion])
             /\ conclusion \in {Successful, HashOnly, Warning}
             /\ md5_copy # None /\ sha1_copy # None
             /\ md5_verify # None /\ sha1_verify # None

\* C11 witness: a finished run whose record holds a digest mismatch and a
\* size mismatch.
C11_Witness ==
    /\ pc = "done"
    /\ report # None
    /\ report[1].md5_match = "NO"
    /\ report[1].sha1_match = "NO"
    /\ report[1].size_match = "NO"
    /\ report[1].conclusion = Warning

\* C12: if the source path does not exist when the copy starts, the run ends
\* in the source-not-found outcome before any write: no step changes the
\* destination path, nothing is read, written or verified and no outcome
\* record is made.
C12_NothingAfterMissing ==
    (~srcExists /\ pc \notin {"main", "exit", "ih_getsize", "ih_open_src"})
        => /\ pc = "err_notfound"
           /\ fault = "open_src"
           /\ source_size = None
           /\ ~srcOpen /\ ~dstWOpen /\ ~dstROpen
           /\ readLog = <<>> /\ wrLog = <<>> /\ hfReadLog = <<>>
           /\ md5_copy = None /\ md5_verify = None
           /\ conclusion = "" /\ report = None

C12_SourceNotFound ==
    /\ []C12_NothingAfterMissing
    /\ [][~srcExists => (dstExists' = dstExists /\ dstFile' = dstFile)]_vars

\* C12 witness: the source is missing, the run has ended in the
\* source-not-found outcome and an earlier image is still in place.
C12_Witness ==
    /\ ~srcExists
    /\ pc = "err_notfound"
    /\ dstExists
    /\ dstFile = <<0, 1>>

C14_SizeQueryNotFatal ==
    /\ (pc = "ih_open_src" /\ srcExists) => ENABLED OpenSource
    /\ pc = "ih_return" => ENABLED ReturnImage
    /\ pc \notin FinalPcs => ENABLED Next
    /\ (pc \in FinalPcs /\ fault = "none" /\ pathGiven)
          => /\ pc = "done"
             /\ md5_copy # None /\ sha1_copy # None
             /\ md5_verify # None /\ sha1_verify # None
    /\ (size_match # "" /\ (source_size = None \/ output_size = None))
          => size_match = "UNKNOWN"
    /\ (pc = "done" /\ (source_size = None \/ output_size = None))
          => report[1].size_match = "UNKNOWN"

\* C14 witness: the source size query failed, the run has finished with
\* digests and size_match is UNKNOWN.
C14_Witness ==
    /\ pc = "done"
    /\ fault = "none"
    /\ source_size = None
    /\ output_size # None
    /\ md5_copy # None /\ md5_verify # None
    /\ size_match = "UNKNOWN"

\* C16: the final digests do not depend on the chunk size: for every source
\* content and every chunk_size the digests image_and_hash returns are those
\* of the source content as a whole, and for every content of the image and
\* every chunk size of hash_file the digests hash_file returns are those of
\* the image as a whole.
C16_ChunkSizeIndependent ==
    /\ md5_copy # None
          => md5_copy = Md5Of(srcData) /\ sha1_copy = Sha1Of(srcData)
    /\ md5_verify # None
          => md5_verify = Md5Of(dstFile) /\ sha1_verify = Sha1Of(dstFile)

\* C16 witness: a source of three bytes copied with chunk_size 2, which does
\* not divide it, and hashed again with chunk size 1, with equal digests.
C16_Witness ==
    /\ pc = "m_compare"
    /\ Len(srcData) = 3
    /\ chunk_size = 2
    /\ hf_chunk_size = 1
    /\ Len(wrLog) = 2
    /\ Len(hfReadLog) = 3
    /\ md5_copy = Md5Of(srcData)
    /\ md5_verify = md5_copy
    /\ sha1_verify = sha1_copy

\* C17: for a source that is not modified, the digests computed during the
\* copy equal the digests of a separate hashing pass over the same content:
\* when the image is not modified after the copy, hash_file reads the
\* source's content from it and returns the digests the copy returned.
C17_CopyEqualsRehash ==
    (pc \in OutcomePcs /\ tampered = "none")
        => /\ dstFile = srcData
           /\ Flatten(hfReadLog) = srcData
           /\ md5_copy = md5_verify
           /\ sha1_copy = sha1_verify
           /\ md5_match # "" => (md5_match = "YES" /\ sha1_match = "YES")

\* C17 witness: a regular, non-empty source, an image left alone, and both
\* digest matches "YES".
C17_Witness ==
    /\ pc = "done"
    /\ srcKind = "file"
    /\ tampered = "none"
    /\ srcData # <<>>
    /\ md5_match = "YES"
    /\ sha1_match = "YES"

ComparedPcs == {"m_confirm", "m_size", "m_conclude", "m_report", "done"}

\* C18 (as claimed): if the image is truncated by one byte between the copy
\* and the verify, every digest match is MISMATCH and size_match is MISMATCH.
C18_TruncationAsClaimed ==
    (pc \in {"m_conclude", "m_report", "done"} /\ tampered = "truncate")
        => /\ md5_match = "NO"
           /\ sha1_match = "NO"
           /\ size_match = "NO"

\* C18 (amended): if the image is truncated by one byte between the copy
\* and the verify, every digest match is MISMATCH and the conclusion is the
\* hard failure; size_match does not see the truncation, because the
\* image size was recorded by image_and_hash before it: it compares the
\* source size with the size the image had, and is MATCH for a regular
\* source when both sizes are known.
C18_TruncationSeenByDigestsOnly ==
    (pc \in ComparedPcs /\ tampered = "truncate")
        => /\ md5_match = "NO"
           /\ sha1_match = "NO"
           /\ conclusion \in {"", Warning}
           /\ output_size # None => output_size[1] = Len(dstFile) + 1
           /\ size_match \in {"", SizeMatchOf(source_size, output_size)}
           /\ (size_match # "" /\ srcKind = "file" /\ source_size # None /\ output_size # None)
                 => size_match = "YES"

\* C18 witness: a finished run on a truncated image with both digest
\* matches "NO" and size_match "YES".
C18_Witness ==
    /\ pc = "done"
    /\ tampered = "truncate"
    /\ md5_match = "NO"
    /\ sha1_match = "NO"
    /\ size_match = "YES"
    /\ conclusion = Warning

\* C19: if one byte of the image is changed between the copy and the
\* verify, at least one algorithm's digest match is MISMATCH and the
\* conclusion is not SUCCESS.
C19_ChangedByteDetected ==
    (pc \in ComparedPcs /\ tampered = "flip")
        => /\ md5_match = "NO" \/ sha1_match = "NO"
           /\ ~(md5_match_bool /\ sha1_match_bool)
           /\ conclusion # Successful
           /\ conclusion # "" => conclusion = Warning

\* C19 witness: a finished run on an image with one byte changed, sizes
\* matching, and the hard-failure conclusion.
C19_Witness ==
    /\ pc = "done"
    /\ tampered = "flip"
    /\ size_match = "YES"
    /\ md5_match = "NO"
    /\ conclusion = Warning

\* The number of chunks of a source of length l read c bytes at a time.
NumChunks(l, c) == (l + c - 1) \div c

\* C20: for a regular source of length L and chunk size C, with no failing
\* call, the copy performs exactly ceil(L/C) chunk writes, each of C bytes
\* except possibly the last and none empty; the image size is L, and unless
\* the image is changed before the verify, size_match is MATCH, both digest
\* matches are MATCH and the conclusion is SUCCESS.
C20_RegularCopy ==
    LET L == Len(srcData)
        C == chunk_size
        N == NumChunks(L, C)
    IN  (srcKind = "file" /\ ~ioFaults)
            => /\ Len(wrLog) <= N
               /\ \A i \in 1..Len(wrLog) :
                     /\ Len(wrLog[i]) >= 1
                     /\ Len(wrLog[i]) = IF i < N THEN C ELSE L - (N - 1) * C
               /\ pc \in {"ih_close", "ih_outsize", "ih_return", "hf_open"} \cup VerifyPcs \cup OutcomePcs
                     => Len(wrLog) = N /\ total_read = L
               /\ pc \in {"ih_return", "hf_open"} \cup VerifyPcs \cup OutcomePcs
                     => source_size = Some(L) /\ output_size = Some(L)
               /\ (pc \in FinalPcs /\ pathGiven /\ srcExists) => pc = "done"
               /\ (pc = "done" /\ tampered = "none")
                     => /\ Len(dstFile) = L
                        /\ size_match = "YES"
                        /\ md5_match = "YES" /\ sha1_match = "YES"
                        /\ conclusion = Successful

\* C20 witness: a regular source of three bytes copied one byte at a time in
\* three chunks, with the SUCCESS conclusion.
C20_Witness ==
    /\ pc = "done"
    /\ srcKind = "file"
    /\ ~ioFaults
    /\ Len(srcData) = 3
    /\ chunk_size = 1
    /\ Len(wrLog) = 3
    /\ output_size = Some(3)
    /\ conclusion = Successful


\* ------------------------------------------------------------------ C21
\* The results of the calls of hash_file made so far on one path.
VerifyResults ==
    hfRuns \o (IF pc = "m_compare" THEN << <<md5_verify, sha1_verify>> >> ELSE <<>>)

\* C21: while the destination is not modified, every call of hash_file on
\* it returns the same MD5 and the same SHA1 as every other call, whatever
\* the chunk sizes; hash_file runs without any copy before it, and no step
\* of hash_file changes the destination or its existence.
C21_VerifyRepeatable ==
    /\ [](tampered = "none" =>
            \A i, j \in DOMAIN VerifyResults : VerifyResults[i] = VerifyResults[j])
    /\ [](readLog = <<>> /\ wrLog = <<>>)
    /\ [][tampered' = tampered => (dstFile' = dstFile /\ dstExists' = dstExists)]_vars

C21_Witness ==
    /\ Len(VerifyResults) = 2
    /\ tampered = "none"
    /\ dstFile = <<1, 0>>
    /\ VerifyResults[1] = <<Md5Of(dstFile), Sha1Of(dstFile)>>
    /\ hf_chunk_size = 1
    /\ hfMd5Fed = << <<1>>, <<0>> >>


\* ------------------------------------------------------------------ C22
\* A call of the copy phase raised: an open, read, write or close error,
\* or an interrupt before image_and_hash returned.
CopyFailed ==
    \/ fault \in {"open_src", "open_dst", "read", "write", "close"}
    \/ fault = "interrupt" /\ md5_copy = None

\* INIT until image_and_hash is called, COPYING until its with block is
\* left, then DONE, or FAILED once a call of the copy phase raised.
CopyPhase ==
    IF CopyFailed THEN "FAILED"
    ELSE IF pc \in {"main", "exit"} THEN "INIT"
    ELSE IF pc \in CopyPcs \ {"ih_outsize", "ih_return"} THEN "COPYING"
    ELSE "DONE"

PhaseSteps ==
    {<<"INIT", "INIT">>, <<"INIT", "COPYING">>, <<"COPYING", "COPYING">>,
     <<"COPYING", "DONE">>, <<"COPYING", "FAILED">>, <<"DONE", "DONE">>}

\* C22: the copy goes INIT -> COPYING -> DONE or INIT -> COPYING -> FAILED
\* and both ends are terminal: once a call of the copy phase has raised no
\* step follows at all (no chunk read, written or digested), the verify has
\* not started and there is no outcome record; once the copy is DONE no
\* chunk is read, written, digested or counted by it any more.
C22_CopyPhases ==
    /\ [][(<<CopyPhase, CopyPhase'>> \in PhaseSteps)]_vars
    /\ [][~CopyFailed /\ vars' # vars]_vars
    /\ [](CopyFailed =>
            /\ pc \in ErrPcs \cup {"interrupted"}
            /\ hfReadLog = <<>> /\ hfMd5Fed = <<>> /\ ~dstROpen
            /\ md5_copy = None /\ sha1_copy = None
            /\ md5_verify = None /\ sha1_verify = None
            /\ conclusion = "" /\ report = None)
    /\ [][CopyPhase = "DONE" =>
            /\ ihHist' = ihHist
            /\ md5' = md5 /\ sha1' = sha1 /\ total_read' = total_read
            /\ srcHandle' = srcHandle /\ dstHandle' = dstHandle]_vars

C22_Witness ==
    /\ CopyPhase = "FAILED"
    /\ fault = "read"
    /\ Len(wrLog) = 1
    /\ md5Fed = wrLog
    /\ srcOff < Len(srcData)


\* ------------------------------------------------------------------ C23
\* C23 (as claimed): a cancellation stops the copy loop or the verify loop
\* between completing one chunk and starting the next, so every chunk read
\* was also written, fed to both digests and counted, and the stream
\* handles are released.
C23_CancelledAtChunkBoundary ==
    fault = "interrupt" =>
        /\ ~srcOpen /\ ~dstWOpen /\ ~dstROpen
        /\ readLog = wrLog /\ md5Fed = wrLog /\ sha1Fed = wrLog
        /\ total_read = Len(Flatten(wrLog))
        /\ hfMd5Fed = hfReadLog /\ hfSha1Fed = hfReadLog
        /\ hf_total_read = Len(Flatten(hfReadLog))


\* ------------------------------------------------------------------ C24
\* C24: with a finite source and no failing call, both loops terminate: a
\* read that returns bytes moves the read offset forward by their number,
\* at least one, and never past the end; a read that returns none leaves
\* the loop; and the run reaches DONE for the copy and then leaves the
\* verify loop as well.
C24_LoopsTerminate ==
    /\ [](srcOff <= Len(srcData) /\ hfOff <= Len(dstFile))
    /\ [][(pc = "ih_read" /\ fault' = "none") =>
            \/ /\ chunk' = <<>> /\ srcOff' = srcOff /\ pc' = "ih_close"
            \/ /\ chunk' # <<>> /\ srcOff' = srcOff + Len(chunk')
               /\ srcOff' > srcOff /\ pc' = "ih_write"]_vars
    /\ [][(pc = "hf_read" /\ fault' = "none") =>
            \/ /\ hf_chunk' = <<>> /\ hfOff' = hfOff /\ pc' = "hf_close"
            \/ /\ hf_chunk' # <<>> /\ hfOff' = hfOff + Len(hf_chunk')
               /\ hfOff' > hfOff /\ pc' = "hf_md5"]_vars
    /\ (pathGiven /\ srcExists /\ ~ioFaults) => <>(CopyPhase = "DONE")
    /\ (pathGiven /\ srcExists /\ ~ioFaults) => <>(pc = "done")

C24_Witness ==
    /\ pc = "done"
    /\ ~ioFaults
    /\ Len(readLog) = MaxLen
    /\ Len(hfReadLog) >= 2


\* ------------------------------------------------------------------ C25
\* C25: whenever the copy loop is between two chunks (before a read, or
\* after the read that ended it), the bytes read from the source, the
\* bytes written to the destination stream, the bytes fed to MD5 and the
\* bytes fed to SHA1 are the same bytes, their number is the read offset
\* and total_read, and no step ever decreases total_read.
C25_CountersAgree ==
    /\ [](pc \in {"ih_read", "ih_close"} =>
            /\ Flatten(wrLog) = Flatten(readLog)
            /\ dstFile \o dstBuf = Flatten(readLog)
            /\ Flatten(md5Fed) = Flatten(readLog)
            /\ Flatten(sha1Fed) = Flatten(readLog)
            /\ srcOff = Len(Flatten(readLog))
            /\ total_read = Len(Flatten(readLog)))
    /\ [][total_read' >= total_read]_vars

C25_Witness ==
    /\ pc = "ih_read"
    /\ chunk_size = 2
    /\ srcKind = "device"
    /\ readLog = << <<1, 0>>, <<1>> >>
    /\ total_read = 3
    /\ dstBuf # <<>>


\* ------------------------------------------------------------------ C26
\* C26: the destination is opened for writing once, before any chunk is
\* read, and that open creates it empty whatever it held; from then on it
\* is only appended to: a write makes the stream content the previous
\* content followed by the chunk, and no step of the program other than
\* that open overwrites or shortens what is on disk.
C26_AppendOnly ==
    /\ [][(~dstWOpen /\ dstWOpen') =>
            /\ pc = "ih_open_dst" /\ readLog = <<>> /\ wrLog = <<>>
            /\ dstExists' /\ dstFile' = <<>> /\ dstBuf' = <<>>]_vars
    /\ [][(pc = "ih_write" /\ fault' = "none") =>
            dstFile' \o dstBuf' = (dstFile \o dstBuf) \o chunk]_vars
    /\ [][(pc # "ih_open_dst" /\ tampered' = tampered) =>
            (IsPrefix(dstFile, dstFile') /\ dstExists' = dstExists)]_vars
    /\ [](dstBuf # <<>> => dstWOpen)

C26_Witness ==
    /\ pc = "ih_md5"
    /\ Len(wrLog) = 2
    /\ dstFile \o dstBuf = Flatten(wrLog)
    /\ dstFile # <<>>
    /\ dstBuf # <<>>


\* ------------------------------------------------------------------ C27
\* C27: in each phase the hex digests exist only after the read that
\* returned no bytes at the end of the stream, both together, and they are
\* the digests of the states as they are now and of the chunks fed so far:
\* nothing is fed to a digest state after it was finalized.
C27_FinalizedAtEnd ==
    /\ (md5_copy = None) = (sha1_copy = None)
    /\ (md5_verify = None) = (sha1_verify = None)
    /\ md5_copy # None =>
          /\ srcOff = Len(srcData) /\ chunk = <<>> /\ ~srcOpen
          /\ md5_copy = Md5Hexdigest(md5)
          /\ sha1_copy = Sha1Hexdigest(sha1)
          /\ md5_copy = Md5Of(Flatten(md5Fed))
          /\ sha1_copy = Sha1Of(Flatten(sha1Fed))
          /\ pc \notin CopyPcs
    /\ md5_verify # None =>
          /\ hfOff = Len(dstFile) /\ hf_chunk = <<>> /\ ~dstROpen
          /\ md5_verify = Md5Hexdigest(hf_md5)
          /\ sha1_verify = Sha1Hexdigest(hf_sha1)
          /\ md5_verify = Md5Of(Flatten(hfMd5Fed))
          /\ sha1_verify = Sha1Of(Flatten(hfSha1Fed))
          /\ pc \notin VerifyPcs \cup {"hf_open"}

C27_Witness ==
    /\ pc = "done"
    /\ md5_copy # None
    /\ md5_verify # None
    /\ Len(md5Fed) = 2
    /\ Len(hfMd5Fed) = 3


\* ------------------------------------------------------------------ C28
\* C28: the source size is queried in one step, entered once from main,
\* before the source is opened or read; the destination size is queried in
\* one step, after the writer was closed and its buffer flushed; so a known
\* output_size is the number of bytes written, which is total_read.
C28_SizeQueries ==
    /\ [][source_size' # source_size => pc = "ih_getsize"]_vars
    /\ [][pc' = "ih_getsize" => pc = "main"]_vars
    /\ [](pc = "ih_getsize" => (~srcOpen /\ srcOff = 0 /\ readLog = <<>>))
    /\ [][output_size' # output_size => pc = "ih_outsize"]_vars
    /\ [](pc = "ih_outsize" => (~dstWOpen /\ dstBuf = <<>> /\ ~srcOpen))
    /\ [](output_size # None =>
            /\ Val(output_size) = total_read
            /\ Val(output_size) = Len(Flatten(wrLog)))

C28_Witness ==
    /\ pc = "ih_return"
    /\ output_size = Some(3)
    /\ source_size = None
    /\ Len(wrLog) = 2


\* ------------------------------------------------------------------ C29
\* C29: for an empty source the copy writes no chunk and feeds none to a
\* digest, the destination exists and is empty once it was opened, the
\* copy digests are those of the empty stream, and for a regular file with
\* no failing call both sizes are 0 and the run ends with size_match MATCH,
\* both digest matches MATCH and the conclusion SUCCESS.
C29_EmptySource ==
    srcData = <<>> =>
        /\ readLog = <<>> /\ wrLog = <<>> /\ md5Fed = <<>> /\ sha1Fed = <<>>
        /\ md5 = Md5New /\ sha1 = Sha1New /\ total_read = 0 /\ dstBuf = <<>>
        /\ (pc \in {"ih_read", "ih_close", "ih_outsize", "ih_return", "hf_open"}
                  \cup VerifyPcs \cup OutcomePcs)
              => (dstExists /\ dstFile = <<>>)
        /\ md5_copy # None
              => (md5_copy = Md5Of(<<>>) /\ sha1_copy = Sha1Of(<<>>))
        /\ (srcKind = "file" /\ ~ioFaults)
              => /\ md5_copy # None
                       => (source_size = Some(0) /\ output_size = Some(0))
                 /\ (pc \in FinalPcs /\ pathGiven /\ srcExists) => pc = "done"
                 /\ pc = "done"
                       => /\ md5_verify = md5_copy /\ sha1_verify = sha1_copy
                          /\ size_match = "YES"
                          /\ md5_match = "YES" /\ sha1_match = "YES"
                          /\ conclusion = Successful

C29_Witness ==
    /\ srcData = <<>>
    /\ srcKind = "file"
    /\ ~ioFaults
    /\ pc = "done"
    /\ dstExists /\ dstFile = <<>>
    /\ source_size = Some(0) /\ output_size = Some(0)
    /\ conclusion = Successful


\* ------------------------------------------------------------------ C30
Contains(text, pat) == Find(text, pat) # -1

\* The bytes embed_message needs for a message.
CoverNeeded(msg) == 8 * (Len(msg) + Len(TERMINATOR))

\* embed_message changed only the low bit of the first CoverNeeded bytes
\* and kept the length, and raised without writing on a cover too small.
C30_EmbedTouchesLowBitsOnly ==
    /\ st_pc \in {"embedded", "extracted"} =>
          /\ Len(coverFile) >= CoverNeeded(message)
          /\ Len(Val(stegoFile)) = Len(coverFile)
          /\ \A i \in 1..Len(coverFile) :
                /\ Val(stegoFile)[i] \div 2 = coverFile[i] \div 2
                /\ i > CoverNeeded(message) => Val(stegoFile)[i] = coverFile[i]
    /\ st_pc = "value_error" =>
          /\ Len(coverFile) < CoverNeeded(message)
          /\ stegoFile \in {None, Some(OldStego)}

\* C30 (as claimed): for every message of 8-bit characters that does not
\* contain the terminator and every cover of at least 8*(len(message)+11)
\* bytes, extract_message returns the message from what embed_message
\* wrote; embed_message changes only the low bit of the first
\* 8*(len(message)+11) bytes, keeps the length, and raises ValueError
\* without writing when the cover is too small.
C30_RoundTrip ==
    /\ C30_EmbedTouchesLowBitsOnly
    /\ (/\ st_pc = "extracted"
        /\ ~Contains(message, TERMINATOR)
        /\ \A i \in DOMAIN message : message[i] \in 0..255)
            => extracted = Some(message)

\* The messages that do come back: those after which the terminator does
\* not begin earlier than at their end.
C30_RoundTripUnlessOverlap ==
    st_pc = "extracted" =>
        extracted = Some(SubSeq(message, 1, Find(message \o TERMINATOR, TERMINATOR)))

=============================================================================
